---- MODULE Spec2Model ----
(***************************************************************************)
(* A model of the SSM password manager: the PasswordManager library        *)
(* (cp/ssm_password_manager/password_manager.py) over a remote parameter   *)
(* store, called concurrently by several clients, and the Flask login      *)
(* handler (cp/app.py) over the library.                                   *)
(*                                                                         *)
(* Strings are sequences of character codes, so that concatenation with    *)
(* the prefix, prefix stripping, emptiness and lexicographic order are     *)
(* computed and not assumed.                                               *)
(***************************************************************************)
EXTENDS Integers, Sequences, FiniteSets, TLC

(***************************************************************************)
(* Program constants                                                       *)
(***************************************************************************)
\* len(string.ascii_letters + string.digits + "!@#$%^&*")
AlphabetSize == 72
\* _generate_password: if length < 8: length = 8
MinLength == 8
\* default of the length parameter of _generate_password / rotate_password
DefaultLength == 16

\* the alphabet, as indices into the alphabet string
Alphabet == 1..AlphabetSize

\* self.prefix: the namespace of the manager ("/p/")
Prefix == <<47, 112, 47>>

(***************************************************************************)
(* Bounds of the model                                                     *)
(***************************************************************************)
\* how many outcomes of the random source are explored per generation
NumStreams == 2

\* the clients that call the library concurrently: client 1 calls every
\* function with every argument; client 2 is a second writer, which creates,
\* rotates and deletes one login (its reads and its locally rejected calls
\* could not affect client 1)
Procs == {1, 2}
Readers == {1}

\* login names given by callers: the empty name, "ab" and "b"
Logins == {<< >>, <<1, 2>>, <<2>>}
NonEmptyLogins == {l \in Logins : l # << >>}

\* a caller-chosen password ("pw1")
CustomPassword == <<16, 23, 53>>
\* passwords given by callers: the empty one and a custom one
PasswordInputs == {<< >>, CustomPassword}

\* what client p passes as login
LoginsOf(p) == IF p \in Readers THEN Logins ELSE {<<2>>}
\* what client p passes as password
PasswordsOf(p) == IF p \in Readers THEN PasswordInputs ELSE {CustomPassword}

\* what client p passes as the optional password of create_login: None or a password
PasswordArgs(p) ==
    {[given |-> FALSE, pw |-> << >>] : x \in {p} \cap Readers}
        \cup {[given |-> TRUE, pw |-> x] : x \in PasswordsOf(p)}

\* length arguments of rotate_password
LengthInputs == {DefaultLength}

(***************************************************************************)
(* Strings                                                                 *)
(***************************************************************************)
\* str.startswith / the store's BeginsWith filter
BeginsWith(s, pre) ==
    /\ Len(s) >= Len(pre)
    /\ SubSeq(s, 1, Len(pre)) = pre

\* s[n:]
DropPrefix(s, n) == SubSeq(s, n + 1, Len(s))

\* Python's order on str: lexicographic by code point, a proper prefix first
RECURSIVE StrLess(_, _)
StrLess(a, b) ==
    IF b = << >> THEN FALSE
    ELSE IF a = << >> THEN TRUE
    ELSE IF Head(a) # Head(b) THEN Head(a) < Head(b)
    ELSE StrLess(Tail(a), Tail(b))

\* list.insert into a sorted list, keeping it sorted
RECURSIVE InsertSorted(_, _)
InsertSorted(x, xs) ==
    IF xs = << >> THEN <<x>>
    ELSE IF StrLess(Head(xs), x) THEN <<Head(xs)>> \o InsertSorted(x, Tail(xs))
    ELSE <<x>> \o xs

\* sorted(xs)
RECURSIVE Sorted(_)
Sorted(xs) ==
    IF xs = << >> THEN << >>
    ELSE InsertSorted(Head(xs), Sorted(Tail(xs)))

Range(f) == {f[i] : i \in DOMAIN f}

\* every enumeration (order) of a finite set, as sequences without repetition
Orders(S) ==
    {f \in [1..Cardinality(S) -> S] : \A i, j \in 1..Cardinality(S) : i # j => f[i] # f[j]}

(***************************************************************************)
(* Password generation                                                     *)
(***************************************************************************)
\* the i-th secrets.choice(alphabet) of outcome k of the random source
Draw(k, i) == ((k + i - 2) % AlphabetSize) + 1

\* faulty variant: _generate_password without the floor
GenLengthAsAsked(length) == length

\* the length _generate_password uses
GenLength(length) == IF length < MinLength THEN MinLength ELSE length

\* _generate_password(length) under outcome k of the random source
GeneratePassword(length, k) == [i \in 1..GenLength(length) |-> Draw(k, i)]

(***************************************************************************)
(* The remote parameter store                                              *)
(***************************************************************************)
\* f"{self.prefix}{login}"
ParamName(login) == Prefix \o login

\* the parameter put_parameter writes (Type='SecureString', Description=f"...{login}").
\* No function of the library reads the tags of a parameter: the store's
\* tags are not part of the state.
Param(login, value) ==
    [name |-> ParamName(login), value |-> value, type |-> "SecureString",
     description |-> login]

\* a parameter of another application, outside the prefix
ForeignParam ==
    [name |-> <<47, 120>>, value |-> <<9>>, type |-> "String", description |-> << >>]

HasParam(s, n) == \E r \in s : r.name = n
ParamOf(s, n) == CHOOSE r \in s : r.name = n

\* put_parameter(..., Overwrite=False) on a name the store does not hold
PutNew(s, rec) == s \cup {rec}

\* put_parameter(..., Overwrite=True): replaces the parameter of that name
PutOverwrite(s, rec) == {r \in s : r.name # rec.name} \cup {rec}

\* faulty variant: delete_parameter removes every parameter under the prefix
\* of the name
DeleteParamUnderPrefix(s, n) ==
    {r \in s : ~BeginsWith(r.name, SubSeq(n, 1, Len(Prefix)))}

\* delete_parameter
DeleteParam(s, n) == {r \in s : r.name # n}

(***************************************************************************)
(* State                                                                   *)
(***************************************************************************)
VARIABLES
    store,   \* the remote parameter store: a set of parameters
    proc,    \* per client: the library call in progress or last completed
    hist,    \* per login: "never" written, "created" by create_login, "upserted"
             \* (brought into the store by an overwrite), or "deleted"
    held,    \* per reader: the password its last create/update/rotate stored,
             \* while nobody has written that login since
    pm,      \* app.py: the module-level PasswordManager was constructed (not None)
    web,     \* app.py: the request being handled, or the last response
    session, \* app.py: the browser's signed session cookie
    ec2      \* app.py: the EC2 client, CONTROL_INSTANCE_ID and the instance behind them

vars == <<store, proc, hist, held, pm, web, session, ec2>>
webvars == <<pm, web, session, ec2>>

\* a client that has called nothing yet
Idle ==
    [op |-> "none", pc |-> "idle", login |-> << >>, given |-> FALSE, pw |-> << >>,
     length |-> 0, status |-> "none", msg |-> "", ret |-> << >>, flag |-> FALSE,
     names |-> << >>, info |-> [name |-> << >>, description |-> << >>, type |-> ""],
     ncalls |-> 0,
     raced |-> FALSE,    \* create_login: another create_login of the same login, absent
                         \* from the store, was in progress at the same time
     prior |-> << >>]    \* rotate_password of a reader: the password its value write replaced

NoHeld == [valid |-> FALSE, by |-> "none", login |-> << >>, value |-> << >>]

\* no request handled yet
NoRequest ==
    [pc |-> "idle", route |-> "none", username |-> << >>, password |-> << >>,
     page |-> "none", flashed |-> << >>,
     raised |-> "none",   \* the exception class the library raised in this request
     error |-> "",        \* and its text
     calls |-> << >>,     \* the calls of the EC2 client made for this request
     state |-> "",        \* get_instance_status: instance_state
     auto |-> FALSE,      \* get_instance_status: auto_started
     snapshot |-> [status |-> "none", state |-> "", error |-> "",
                   auto_started |-> "absent", system_status |-> "absent"]]
                          \* instance_status, as given to the dashboard (None at first)

\* an empty session cookie
Anonymous == [logged_in |-> FALSE, username |-> << >>]

\* the EC2 side with everything in place: the client constructed,
\* CONTROL_INSTANCE_ID set, the instance stopped
Ec2Ready == [client |-> TRUE, configured |-> TRUE, state |-> "stopped"]

\* the library alone: the store as the manager's callers find it, the web
\* application at rest
Init ==
    /\ store = {ForeignParam}
    /\ proc = [p \in Procs |-> Idle]
    /\ hist = [l \in NonEmptyLogins |-> "never"]
    /\ held = [p \in Procs |-> NoHeld]
    /\ pm = TRUE
    /\ web = NoRequest
    /\ session = Anonymous
    /\ ec2 = Ec2Ready

\* a client is between two library calls
Ready(p) == proc[p].pc \in {"idle", "done"}

\* the call after the function is entered with these arguments
Entered(op, pc, login, given, pw, length) ==
    [Idle EXCEPT !.op = op, !.pc = pc, !.login = login, !.given = given,
                 !.pw = pw, !.length = length]

\* raise: the call ends with an exception
Raise(call, status, msg) ==
    [call EXCEPT !.pc = "done", !.status = status, !.msg = msg]

\* the call returns normally
Return(call) == [call EXCEPT !.pc = "done", !.status = "ok"]

\* one more request sent to the store
Sent(call) == [call EXCEPT !.ncalls = @ + 1]

\* the store and the call after a step
After(s, call) == [store |-> s, call |-> call]

(***************************************************************************)
(* The library: what each function does with the store's answer.           *)
(* `fault` is the store answering with any other ClientError (transport,   *)
(* authorization, throttling).                                             *)
(***************************************************************************)
\* faulty variant: create_login passes Overwrite=True
CreateOverwriteOn == TRUE

\* create_login: Overwrite=False
CreateOverwrite == FALSE

\* create_login: if not login: raise ValidationError
create_login_check(login, given, pw) ==
    IF login = << >>
    THEN Raise(Entered("create", "done", login, given, pw, 0),
               "ValidationError", "Login cannot be empty")
    ELSE Entered("create", "put", login, given, pw, 0)

\* faulty variant: create_login ignores the password it is given
create_login_password_ignored(call, k) == GeneratePassword(DefaultLength, k)

\* create_login: the password to store, generated when none is given
create_login_password(call, k) ==
    IF call.given THEN call.pw ELSE GeneratePassword(DefaultLength, k)

\* create_login: put_parameter and the translation of its answer.  An empty
\* Value is refused: by the SDK's parameter validation before anything is sent
\* (an exception that is no ClientError and is not translated), or by the store
\* (a ClientError); `fault` chooses.
create_login_put(s, call, k, fault) ==
    LET password == create_login_password(call, k)
        rec == Param(call.login, password)
    IN  IF password = << >> /\ ~fault
        THEN After(s, Raise(call, "ParamValidationError", "Invalid length for parameter Value"))
        ELSE IF fault
        THEN After(s, Raise(Sent(call), "AWSError", "Failed to create login"))
        ELSE IF HasParam(s, rec.name) /\ ~CreateOverwrite
        THEN After(s, Raise(Sent(call), "LoginAlreadyExistsError", "Login already exists"))
        ELSE After(IF CreateOverwrite THEN PutOverwrite(s, rec) ELSE PutNew(s, rec),
                   [Return(Sent(call)) EXCEPT !.ret = password])

\* faulty variant: update_login does not check the password
update_login_check_login_only(call) ==
    IF call.login = << >>
    THEN Raise(call, "ValidationError", "Login cannot be empty")
    ELSE [call EXCEPT !.pc = "put"]

\* update_login: the two checks before the store is called
update_login_check(call) ==
    IF call.login = << >>
    THEN Raise(call, "ValidationError", "Login cannot be empty")
    ELSE IF call.pw = << >>
    THEN Raise(call, "ValidationError", "Password cannot be empty")
    ELSE [call EXCEPT !.pc = "put"]

\* faulty variant: update_login refuses a login the store does not hold
update_login_put_checked(s, call, fault) ==
    IF fault
    THEN After(s, Raise(Sent(call), "AWSError", "Failed to update login"))
    ELSE IF ~HasParam(s, ParamName(call.login))
    THEN After(s, Raise(Sent(call), "LoginNotFoundError", "Login not found"))
    ELSE After(PutOverwrite(s, Param(call.login, call.pw)),
               [Sent(call) EXCEPT !.pc = "tags"])

\* update_login: put_parameter(Overwrite=True), without tags
update_login_put(s, call, fault) ==
    IF fault
    THEN After(s, Raise(Sent(call), "AWSError", "Failed to update login"))
    ELSE After(PutOverwrite(s, Param(call.login, call.pw)),
               [Sent(call) EXCEPT !.pc = "tags"])

\* faulty variant: update_login ignores a failure of the tag write
update_login_tags_best_effort(s, call, fault) ==
    [Return(Sent(call)) EXCEPT !.ret = IF call.op = "rotate" THEN call.pw ELSE << >>]

\* update_login: add_tags_to_resource, which the store refuses for a name it
\* does not hold; rotate_password returns new_password when update_login returns
update_login_tags(s, call, fault) ==
    IF fault \/ ~HasParam(s, ParamName(call.login))
    THEN Raise(Sent(call), "AWSError", "Failed to update login")
    ELSE [Return(Sent(call)) EXCEPT !.ret = IF call.op = "rotate" THEN call.pw ELSE << >>]

\* delete_login, get_password, rotate_password, login_exists, get_login_info:
\* if not login: raise ValidationError
login_check(op, pc, login, length) ==
    IF login = << >>
    THEN Raise(Entered(op, "done", login, FALSE, << >>, length),
               "ValidationError", "Login cannot be empty")
    ELSE Entered(op, pc, login, FALSE, << >>, length)

\* faulty variant: delete_login does not translate ParameterNotFound: deleting an
\* absent login succeeds
delete_login_call_quiet(s, call, fault) ==
    IF fault
    THEN After(s, Raise(Sent(call), "AWSError", "Failed to delete login"))
    ELSE After(DeleteParam(s, ParamName(call.login)), Return(Sent(call)))

\* delete_login: delete_parameter and the translation of its answer
delete_login_call(s, call, fault) ==
    IF fault
    THEN After(s, Raise(Sent(call), "AWSError", "Failed to delete login"))
    ELSE IF ~HasParam(s, ParamName(call.login))
    THEN After(s, Raise(Sent(call), "LoginNotFoundError", "Login not found"))
    ELSE After(DeleteParam(s, ParamName(call.login)), Return(Sent(call)))

\* faulty variant: get_password returns an empty password for a login the
\* store does not hold
get_password_call_lenient(s, call, fault) ==
    IF fault
    THEN Raise(Sent(call), "AWSError", "Failed to get password")
    ELSE IF ~HasParam(s, ParamName(call.login))
    THEN Return(Sent(call))
    ELSE [Return(Sent(call)) EXCEPT !.ret = ParamOf(s, ParamName(call.login)).value]

\* get_password: get_parameter(WithDecryption=True) and the translation of its answer
get_password_call(s, call, fault) ==
    IF fault
    THEN Raise(Sent(call), "AWSError", "Failed to get password")
    ELSE IF ~HasParam(s, ParamName(call.login))
    THEN Raise(Sent(call), "LoginNotFoundError", "Login not found")
    ELSE [Return(Sent(call)) EXCEPT !.ret = ParamOf(s, ParamName(call.login)).value]

\* login_exists: get_password, with LoginNotFoundError (and nothing else) caught
login_exists_call(s, call, fault) ==
    LET got == get_password_call(s, call, fault)
    IN  IF got.status = "ok" THEN [Return(Sent(call)) EXCEPT !.flag = TRUE]
        ELSE IF got.status = "LoginNotFoundError" THEN [Return(Sent(call)) EXCEPT !.flag = FALSE]
        ELSE got

\* faulty variant: rotate_password goes on when get_password does not find the login
rotate_password_get_unchecked(s, call, fault) ==
    LET got == get_password_call(s, call, fault)
    IN  IF got.status = "AWSError" THEN got ELSE [Sent(call) EXCEPT !.pc = "generate"]

\* rotate_password: get_password, only to see that the login exists
rotate_password_get(s, call, fault) ==
    LET got == get_password_call(s, call, fault)
    IN  IF got.status = "ok" THEN [Sent(call) EXCEPT !.pc = "generate"] ELSE got

\* rotate_password: new_password = _generate_password(length), then update_login
\* up to its value write; an exception loses new_password
rotate_password_update(s, call, k, fault) ==
    LET checked == update_login_check([call EXCEPT !.pw = GeneratePassword(call.length, k)])
        out == update_login_put(s, checked, fault)
    IN  IF checked.status # "none" THEN After(s, [checked EXCEPT !.pw = << >>])
        ELSE IF out.call.status # "none" THEN After(out.store, [out.call EXCEPT !.pw = << >>])
        ELSE out

\* get_login_info: describe_parameters filtered by the exact name
get_login_info_call(s, call, fault) ==
    LET found == {r \in s : r.name = ParamName(call.login)}
    IN  IF fault
        THEN Raise(Sent(call), "AWSError", "Failed to get login info")
        ELSE IF found = {}
        THEN Raise(Sent(call), "LoginNotFoundError", "Login not found")
        ELSE LET param == CHOOSE r \in found : TRUE
             IN  [Return(Sent(call)) EXCEPT
                    !.info = [name |-> param.name, description |-> param.description,
                              type |-> param.type]]

\* the parameters describe_parameters returns for the BeginsWith filter
ListFilter(s) == {r \in s : BeginsWith(r.name, Prefix)}

\* faulty variant: list_logins returns the names in the order the store gave them
list_logins_call_unsorted(call, order, fault) ==
    IF fault
    THEN Raise(Sent(call), "AWSError", "Failed to list logins")
    ELSE [Return(Sent(call)) EXCEPT
            !.names = [i \in DOMAIN order |-> DropPrefix(order[i].name, Len(Prefix))]]

\* list_logins: the pages of describe_parameters arrive in the order `order`;
\* each name loses the prefix, and the list is sorted
list_logins_call(call, order, fault) ==
    IF fault
    THEN Raise(Sent(call), "AWSError", "Failed to list logins")
    ELSE [Return(Sent(call)) EXCEPT
            !.names = Sorted([i \in DOMAIN order |-> DropPrefix(order[i].name, Len(Prefix))])]

(***************************************************************************)
(* The clients' steps.  A call is entered (its arguments are checked       *)
(* locally), then each request to the store is one atomic step.            *)
(***************************************************************************)
\* hist after a successful write of login l by function `op`
Written(op, l) ==
    [hist EXCEPT ![l] = IF op = "delete" THEN "deleted"
                        ELSE IF op = "create" \/ hist[l] = "created" THEN "created"
                        ELSE "upserted"]

\* a write of login l by anyone ends what the readers hold about l
Invalidate(h, l) == [q \in Procs |-> IF h[q].login = l THEN NoHeld ELSE h[q]]

\* reader p holds the value the store now has for login l, written by its call of op
Hold(h, p, op, l, s) ==
    IF p \in Readers
    THEN [h EXCEPT ![p] = [valid |-> TRUE, by |-> op, login |-> l,
                           value |-> ParamOf(s, ParamName(l)).value]]
    ELSE h

\* client p enters a call: what it held lasts only into a get_password of that login
Forget(p, op, l) ==
    IF op = "get" /\ held[p].valid /\ held[p].login = l
    THEN held
    ELSE [held EXCEPT ![p] = NoHeld]

\* client q is in a create_login of login l, which the store does not hold
Racing(q, l) ==
    /\ l # << >>
    /\ proc[q].op = "create" /\ proc[q].pc = "put" /\ proc[q].login = l
    /\ ~HasParam(store, ParamName(l))

CreateEnter(p) ==
    /\ Ready(p)
    /\ \E l \in LoginsOf(p), arg \in PasswordArgs(p) :
         /\ proc' = [q \in Procs |->
                        IF q = p
                        THEN [create_login_check(l, arg.given, arg.pw) EXCEPT
                                !.raced = \E r \in Procs \ {p} : Racing(r, l)]
                        ELSE IF Racing(q, l) THEN [proc[q] EXCEPT !.raced = TRUE]
                        ELSE proc[q]]
         /\ held' = Forget(p, "create", l)
    /\ UNCHANGED <<store, hist>>
    /\ UNCHANGED webvars

CreatePut(p) ==
    /\ proc[p].op = "create" /\ proc[p].pc = "put"
    /\ \E k \in 1..NumStreams, fault \in BOOLEAN :
         LET out == create_login_put(store, proc[p], k, fault)
             l == proc[p].login
         IN  /\ store' = out.store
             /\ proc' = [proc EXCEPT ![p] = out.call]
             /\ IF out.call.status = "ok"
                THEN /\ hist' = Written("create", l)
                     /\ held' = Hold(Invalidate(held, l), p, proc[p].op, l, out.store)
                ELSE UNCHANGED <<hist, held>>
    /\ UNCHANGED webvars

UpdateEnter(p) ==
    /\ Ready(p) /\ p \in Readers
    /\ \E l \in LoginsOf(p), pw \in PasswordsOf(p) :
         /\ proc' = [proc EXCEPT ![p] =
                        update_login_check(Entered("update", "done", l, TRUE, pw, 0))]
         /\ held' = Forget(p, "update", l)
    /\ UNCHANGED <<store, hist>>
    /\ UNCHANGED webvars

\* the value write of update_login
UpdatePut(p) ==
    /\ proc[p].op = "update" /\ proc[p].pc = "put"
    /\ \E fault \in BOOLEAN :
         LET out == update_login_put(store, proc[p], fault)
             l == proc[p].login
         IN  /\ store' = out.store
             /\ proc' = [proc EXCEPT ![p] = out.call]
             /\ IF out.call.pc = "tags"
                THEN /\ hist' = Written("update", l)
                     /\ held' = Hold(Invalidate(held, l), p, "update", l, out.store)
                ELSE UNCHANGED <<hist, held>>
    /\ UNCHANGED webvars

\* the tag write of update_login, called directly or by rotate_password
UpdateTags(p) ==
    /\ proc[p].op \in {"update", "rotate"} /\ proc[p].pc = "tags"
    /\ \E fault \in BOOLEAN :
         LET call == update_login_tags(store, proc[p], fault)
         IN  /\ proc' = [proc EXCEPT ![p] = call]
             /\ held' = IF call.status = "ok" THEN held ELSE [held EXCEPT ![p] = NoHeld]
    /\ UNCHANGED <<store, hist>>
    /\ UNCHANGED webvars

DeleteEnter(p) ==
    /\ Ready(p)
    /\ \E l \in LoginsOf(p) :
         /\ proc' = [proc EXCEPT ![p] = login_check("delete", "delete", l, 0)]
         /\ held' = Forget(p, "delete", l)
    /\ UNCHANGED <<store, hist>>
    /\ UNCHANGED webvars

DeleteCall(p) ==
    /\ proc[p].op = "delete" /\ proc[p].pc = "delete"
    /\ \E fault \in BOOLEAN :
         LET out == delete_login_call(store, proc[p], fault)
             l == proc[p].login
         IN  /\ store' = out.store
             /\ proc' = [proc EXCEPT ![p] = out.call]
             /\ IF out.call.status = "ok"
                THEN /\ hist' = Written("delete", l)
                     /\ held' = Invalidate(held, l)
                ELSE UNCHANGED <<hist, held>>
    /\ UNCHANGED webvars

GetEnter(p) ==
    /\ Ready(p) /\ p \in Readers
    /\ \E l \in LoginsOf(p) :
         /\ proc' = [proc EXCEPT ![p] = login_check("get", "get", l, 0)]
         /\ held' = Forget(p, "get", l)
    /\ UNCHANGED <<store, hist>>
    /\ UNCHANGED webvars

GetCall(p) ==
    /\ proc[p].op = "get" /\ proc[p].pc = "get"
    /\ \E fault \in BOOLEAN :
         proc' = [proc EXCEPT ![p] = get_password_call(store, proc[p], fault)]
    /\ UNCHANGED <<store, hist, held>>
    /\ UNCHANGED webvars

ExistsEnter(p) ==
    /\ Ready(p) /\ p \in Readers
    /\ \E l \in LoginsOf(p) :
         /\ proc' = [proc EXCEPT ![p] = login_check("exists", "get", l, 0)]
         /\ held' = Forget(p, "exists", l)
    /\ UNCHANGED <<store, hist>>
    /\ UNCHANGED webvars

ExistsCall(p) ==
    /\ proc[p].op = "exists" /\ proc[p].pc = "get"
    /\ \E fault \in BOOLEAN :
         proc' = [proc EXCEPT ![p] = login_exists_call(store, proc[p], fault)]
    /\ UNCHANGED <<store, hist, held>>
    /\ UNCHANGED webvars

RotateEnter(p) ==
    /\ Ready(p)
    /\ \E l \in LoginsOf(p), length \in LengthInputs :
         /\ proc' = [proc EXCEPT ![p] = login_check("rotate", "get", l, length)]
         /\ held' = Forget(p, "rotate", l)
    /\ UNCHANGED <<store, hist>>
    /\ UNCHANGED webvars

RotateGet(p) ==
    /\ proc[p].op = "rotate" /\ proc[p].pc = "get"
    /\ \E fault \in BOOLEAN :
         proc' = [proc EXCEPT ![p] = rotate_password_get(store, proc[p], fault)]
    /\ UNCHANGED <<store, hist, held>>
    /\ UNCHANGED webvars

\* rotate_password generates and calls update_login, up to its value write
RotateUpdate(p) ==
    /\ proc[p].op = "rotate" /\ proc[p].pc = "generate"
    /\ \E k \in 1..NumStreams, fault \in BOOLEAN :
         LET out == rotate_password_update(store, proc[p], k, fault)
             l == proc[p].login
         IN  /\ store' = out.store
             /\ proc' = [proc EXCEPT ![p] =
                            IF out.call.pc = "tags" /\ HasParam(store, ParamName(l)) /\ p \in Readers
                            THEN [out.call EXCEPT !.prior = ParamOf(store, ParamName(l)).value]
                            ELSE out.call]
             /\ IF out.call.pc = "tags"
                THEN /\ hist' = Written("update", l)
                     /\ held' = Hold(Invalidate(held, l), p, proc[p].op, l, out.store)
                ELSE UNCHANGED <<hist, held>>
    /\ UNCHANGED webvars

InfoEnter(p) ==
    /\ Ready(p) /\ p \in Readers
    /\ \E l \in LoginsOf(p) :
         /\ proc' = [proc EXCEPT ![p] = login_check("info", "describe", l, 0)]
         /\ held' = Forget(p, "info", l)
    /\ UNCHANGED <<store, hist>>
    /\ UNCHANGED webvars

InfoCall(p) ==
    /\ proc[p].op = "info" /\ proc[p].pc = "describe"
    /\ \E fault \in BOOLEAN :
         proc' = [proc EXCEPT ![p] = get_login_info_call(store, proc[p], fault)]
    /\ UNCHANGED <<store, hist, held>>
    /\ UNCHANGED webvars

ListEnter(p) ==
    /\ Ready(p) /\ p \in Readers
    /\ proc' = [proc EXCEPT ![p] = Entered("list", "describe", << >>, FALSE, << >>, 0)]
    /\ held' = Forget(p, "list", << >>)
    /\ UNCHANGED <<store, hist>>
    /\ UNCHANGED webvars

ListCall(p) ==
    /\ proc[p].op = "list" /\ proc[p].pc = "describe"
    /\ \E order \in Orders(ListFilter(store)), fault \in BOOLEAN :
         proc' = [proc EXCEPT ![p] = list_logins_call(proc[p], order, fault)]
    /\ UNCHANGED <<store, hist, held>>
    /\ UNCHANGED webvars

Next ==
    \E p \in Procs :
        \/ CreateEnter(p) \/ CreatePut(p)
        \/ UpdateEnter(p) \/ UpdatePut(p) \/ UpdateTags(p)
        \/ DeleteEnter(p) \/ DeleteCall(p)
        \/ GetEnter(p) \/ GetCall(p)
        \/ ExistsEnter(p) \/ ExistsCall(p)
        \/ RotateEnter(p) \/ RotateGet(p) \/ RotateUpdate(p)
        \/ InfoEnter(p) \/ InfoCall(p)
        \/ ListEnter(p) \/ ListCall(p)

Spec == Init /\ [][Next]_vars

(***************************************************************************)
(* The web application (cp/app.py): the login form over the library.       *)
(* One browser sends its requests one after the other; the second client   *)
(* of the library writes the store in between and during a request.        *)
(***************************************************************************)
\* whitespace, which str.strip() removes
Whitespace == {0}

\* str.strip()
RECURSIVE StripLeft(_)
StripLeft(s) == IF s # << >> /\ Head(s) \in Whitespace THEN StripLeft(Tail(s)) ELSE s
RECURSIVE StripRight(_)
StripRight(s) ==
    IF s # << >> /\ s[Len(s)] \in Whitespace
    THEN StripRight(SubSeq(s, 1, Len(s) - 1))
    ELSE s
Strip(s) == StripRight(StripLeft(s))

\* the username field of the form: empty, blank, "b", "b " and "ab"
UsernameForms == {<< >>, <<0>>, <<2>>, <<2, 0>>, <<1, 2>>}
\* the password field of the form: empty, the custom password, the custom
\* password after a blank, and a wrong one
PasswordForms == {<< >>, CustomPassword, <<0>> \o CustomPassword, <<5>>}

\* how a call of the library ends for the handler: with the store's answer,
\* with a ClientError of the store (which the library raises as AWSError), or
\* with an exception the library does not translate (no connection, no
\* credentials)
CallOutcomes == {"answer", "ClientError", "Exception"}

\* flash(message, category); `error` is the text of an exception and `name`
\* a username formatted into the message
Flash(category, text, error, name) ==
    [category |-> category, text |-> text, error |-> error, name |-> name]

\* return render_template(...) / redirect(...): the response, with the
\* messages flashed while the request was handled
Respond(req, page, flashes) == [req EXCEPT !.pc = "done", !.page = page, !.flashed = flashes]

\* except PasswordManagerError as e: flash(f'Authentication error: {e}', 'error')
login_manager_error(req, call) ==
    Respond([req EXCEPT !.raised = call.status, !.error = call.msg], "login",
            <<Flash("error", "Authentication error", call.msg, << >>)>>)

\* except Exception as e: flash('System error occurred. Please try again.', 'error')
login_other_error(req) ==
    Respond([req EXCEPT !.raised = "Exception", !.error = "botocore"], "login",
            <<Flash("error", "System error occurred. Please try again.", "", << >>)>>)

\* flash('Invalid username or password', 'error')
login_invalid(req) ==
    Respond(req, "login", <<Flash("error", "Invalid username or password", "", << >>)>>)

\* login, POST: the form is read and checked before the library is called
login_post(up, u, w) ==
    LET req == [NoRequest EXCEPT !.route = "POST /login",
                                 !.username = Strip(u), !.password = Strip(w)]
    IN  IF ~up
        THEN Respond(req, "login",
                     <<Flash("error", "System error: Password manager not available", "", << >>)>>)
        ELSE IF req.username = << >> \/ req.password = << >>
        THEN Respond(req, "login",
                     <<Flash("error", "Please enter both username and password", "", << >>)>>)
        ELSE [req EXCEPT !.pc = "exists"]

\* login, POST: exists = pm.login_exists(username)
login_exists_step(s, req, outcome) ==
    IF outcome = "Exception" THEN login_other_error(req)
    ELSE LET call == login_check("exists", "get", req.username, 0)
             got == IF call.pc = "done" THEN call
                    ELSE login_exists_call(s, call, outcome = "ClientError")
         IN  IF got.status # "ok" THEN login_manager_error(req, got)
             ELSE IF got.flag THEN [req EXCEPT !.pc = "get"]
             ELSE login_invalid(req)

\* faulty variant: login does not compare the passwords
login_get_step_any_password(s, req, sess, outcome) ==
    IF outcome = "Exception" THEN [web |-> login_other_error(req), session |-> sess]
    ELSE LET call == login_check("get", "get", req.username, 0)
             got == IF call.pc = "done" THEN call
                    ELSE get_password_call(s, call, outcome = "ClientError")
         IN  IF got.status # "ok"
             THEN [web |-> login_manager_error(req, got), session |-> sess]
             ELSE [web |-> Respond(req, "redirect index",
                                   <<Flash("success", "Welcome", "", req.username)>>),
                   session |-> [logged_in |-> TRUE, username |-> req.username]]

\* login, POST: stored_password = pm.get_password(username) and the comparison
login_get_step(s, req, sess, outcome) ==
    IF outcome = "Exception" THEN [web |-> login_other_error(req), session |-> sess]
    ELSE LET call == login_check("get", "get", req.username, 0)
             got == IF call.pc = "done" THEN call
                    ELSE get_password_call(s, call, outcome = "ClientError")
         IN  IF got.status # "ok"
             THEN [web |-> login_manager_error(req, got), session |-> sess]
             ELSE IF req.password = got.ret
             THEN [web |-> Respond(req, "redirect index",
                                   <<Flash("success", "Welcome", "", req.username)>>),
                   session |-> [logged_in |-> TRUE, username |-> req.username]]
             ELSE [web |-> login_invalid(req), session |-> sess]

\* the browser is between two requests
Browsing == web.pc \in {"idle", "done"}

\* GET /login
LoginGet ==
    /\ Browsing
    /\ web' = Respond([NoRequest EXCEPT !.route = "GET /login"], "login", << >>)
    /\ UNCHANGED <<store, proc, hist, held, pm, session, ec2>>

\* POST /login, up to the first call of the library
LoginPost ==
    /\ Browsing
    /\ \E u \in UsernameForms, w \in PasswordForms : web' = login_post(pm, u, w)
    /\ UNCHANGED <<store, proc, hist, held, pm, session, ec2>>

LoginExists ==
    /\ web.pc = "exists"
    /\ \E outcome \in CallOutcomes : web' = login_exists_step(store, web, outcome)
    /\ UNCHANGED <<store, proc, hist, held, pm, session, ec2>>

LoginPassword ==
    /\ web.pc = "get"
    /\ \E outcome \in CallOutcomes :
         LET out == login_get_step(store, web, session, outcome)
         IN  web' = out.web /\ session' = out.session
    /\ UNCHANGED <<store, proc, hist, held, pm, ec2>>

\* GET /logout
Logout ==
    /\ Browsing
    /\ session' = Anonymous
    /\ web' = Respond([NoRequest EXCEPT !.route = "GET /logout"], "redirect login",
                      <<Flash("info", "You have been logged out", "", << >>)>>)
    /\ UNCHANGED <<store, proc, hist, held, pm, ec2>>

(***************************************************************************)
(* The dashboard (index) and get_instance_status over the EC2 client.      *)
(***************************************************************************)
\* the error codes of a ClientError that get_instance_status tells apart
Ec2Errors == {"InvalidInstanceID.NotFound", "UnauthorizedOperation", "OtherClientError"}
\* how a call of the EC2 client ends: with an answer, with a ClientError or
\* with another exception
Ec2Outcomes == {"ok", "Exception"} \cup Ec2Errors
\* describe_instances and describe_instance_status can also answer with an
\* empty list
Ec2Answers == Ec2Outcomes \cup {"empty"}

\* one more call of the EC2 client, and how it ended
Called(req, api, outcome) ==
    [req EXCEPT !.calls = Append(@, [api |-> api, outcome |-> outcome])]

\* the dicts returned with an 'error' key
ErrorSnapshot(status, error) ==
    [status |-> status, state |-> "N/A", error |-> error,
     auto_started |-> "absent", system_status |-> "absent"]

\* faulty variant: get_instance_status without its `except Exception`
instance_status_error_uncaught(outcome) ==
    IF outcome = "InvalidInstanceID.NotFound"
    THEN ErrorSnapshot("error", "Instance not found")
    ELSE IF outcome = "UnauthorizedOperation"
    THEN ErrorSnapshot("error", "Access denied - insufficient permissions to describe instances")
    ELSE IF outcome = "Exception"
    THEN [ErrorSnapshot("raised", "") EXCEPT !.state = ""]
    ELSE ErrorSnapshot("error", "AWS error")

\* get_instance_status: except ClientError as e / except Exception as e
instance_status_error(outcome) ==
    IF outcome = "InvalidInstanceID.NotFound"
    THEN ErrorSnapshot("error", "Instance not found")
    ELSE IF outcome = "UnauthorizedOperation"
    THEN ErrorSnapshot("error", "Access denied - insufficient permissions to describe instances")
    ELSE IF outcome = "Exception"
    THEN ErrorSnapshot("error", "Unexpected error")
    ELSE ErrorSnapshot("error", "AWS error")

\* index: return render_template('dashboard.html', ..., instance_status=...);
\* an exception that get_instance_status lets through ends the request with
\* the page of the 500 handler
Dashboard(req, snap) ==
    IF snap.status = "raised"
    THEN [Respond(req, "error 500", << >>) EXCEPT !.raised = "Exception"]
    ELSE [Respond(req, "dashboard", << >>) EXCEPT !.snapshot = snap]

\* get_instance_status: if not ec2_client or not instance_id
get_instance_status_enter(req, client, instance_id) ==
    IF ~client \/ ~instance_id
    THEN Dashboard(req, ErrorSnapshot("unknown",
                        "EC2 client not available or instance ID not configured"))
    ELSE [req EXCEPT !.pc = "describe"]

\* faulty variant: index without the test of the session
index_enter_open(sess, e) ==
    LET req == [NoRequest EXCEPT !.route = "GET /"]
    IN  IF e.configured THEN get_instance_status_enter(req, e.client, e.configured)
        ELSE Dashboard(req, NoRequest.snapshot)

\* faulty variant: index looks the session's login up in the store
index_enter_revalidated(sess, e) ==
    LET req == [NoRequest EXCEPT !.route = "GET /"]
    IN  IF sess.logged_in /\ HasParam(store, ParamName(sess.username))
        THEN IF e.configured THEN get_instance_status_enter(req, e.client, e.configured)
             ELSE Dashboard(req, NoRequest.snapshot)
        ELSE Respond(req, "redirect login", << >>)

\* index, up to the first call of the EC2 client
index_enter(sess, e) ==
    LET req == [NoRequest EXCEPT !.route = "GET /"]
    IN  IF sess.logged_in
        THEN IF e.configured THEN get_instance_status_enter(req, e.client, e.configured)
             ELSE Dashboard(req, NoRequest.snapshot)
        ELSE Respond(req, "redirect login", << >>)

\* get_instance_status: describe_instances
describe_instances_step(req, e, outcome) ==
    LET r == Called(req, "describe_instances", outcome)
    IN  IF outcome = "empty" THEN Dashboard(r, ErrorSnapshot("not_found", "Instance not found"))
        ELSE IF outcome # "ok" THEN Dashboard(r, instance_status_error(outcome))
        ELSE [r EXCEPT !.state = e.state,
                       !.pc = IF e.state = "stopped" THEN "start" ELSE "status"]

\* faulty variant: the state is reported as pending whether or not the start
\* was accepted
start_instances_step_always(req, e, outcome) ==
    LET r == Called(req, "start_instances", outcome)
    IN  IF outcome = "Exception"
        THEN [web |-> Dashboard(r, instance_status_error(outcome)), ec2 |-> e]
        ELSE [web |-> [r EXCEPT !.state = "pending", !.auto = TRUE, !.pc = "status"],
              ec2 |-> IF outcome = "ok" /\ e.state = "stopped"
                      THEN [e EXCEPT !.state = "pending"] ELSE e]

\* get_instance_status: start_instances, for an instance observed stopped
start_instances_step(req, e, outcome) ==
    LET r == Called(req, "start_instances", outcome)
    IN  IF outcome = "ok"
        THEN [web |-> [r EXCEPT !.state = "pending", !.auto = TRUE, !.pc = "status"],
              ec2 |-> [e EXCEPT !.state = IF @ = "stopped" THEN "pending" ELSE @]]
        ELSE IF outcome = "Exception"
        THEN [web |-> Dashboard(r, instance_status_error(outcome)), ec2 |-> e]
        ELSE [web |-> [r EXCEPT !.pc = "status"], ec2 |-> e]

\* get_instance_status: describe_instance_status and the returned status_info
describe_instance_status_step(req, outcome) ==
    LET r == Called(req, "describe_instance_status", outcome)
    IN  IF outcome \in {"ok", "empty"}
        THEN Dashboard(r, [status |-> r.state, state |-> r.state, error |-> "",
                           auto_started |-> IF r.auto THEN "true" ELSE "false",
                           system_status |-> IF outcome = "ok" THEN "ok" ELSE "N/A"])
        ELSE Dashboard(r, instance_status_error(outcome))

\* GET /
Index ==
    /\ Browsing
    /\ web' = index_enter(session, ec2)
    /\ UNCHANGED <<store, proc, hist, held, pm, session, ec2>>

IndexDescribe ==
    /\ web.pc = "describe"
    /\ \E outcome \in Ec2Answers : web' = describe_instances_step(web, ec2, outcome)
    /\ UNCHANGED <<store, proc, hist, held, pm, session, ec2>>

IndexStart ==
    /\ web.pc = "start"
    /\ \E outcome \in Ec2Outcomes :
         LET out == start_instances_step(web, ec2, outcome)
         IN  web' = out.web /\ ec2' = out.ec2
    /\ UNCHANGED <<store, proc, hist, held, pm, session>>

IndexStatus ==
    /\ web.pc = "status"
    /\ \E outcome \in Ec2Answers : web' = describe_instance_status_step(web, outcome)
    /\ UNCHANGED <<store, proc, hist, held, pm, session, ec2>>

\* the instance, started, comes up
InstanceBoots ==
    /\ ec2.state = "pending"
    /\ ec2' = [ec2 EXCEPT !.state = "running"]
    /\ UNCHANGED <<store, proc, hist, held, pm, web, session>>

\* the instance is stopped by its owner
InstanceStops ==
    /\ ec2.state = "running"
    /\ ec2' = [ec2 EXCEPT !.state = "stopped"]
    /\ UNCHANGED <<store, proc, hist, held, pm, web, session>>

\* the application as started: the construction of the PasswordManager at
\* import may have failed, which leaves pm = None
WebInit ==
    /\ store = {ForeignParam}
    /\ proc = [p \in Procs |-> Idle]
    /\ hist = [l \in NonEmptyLogins |-> "never"]
    /\ held = [p \in Procs |-> NoHeld]
    /\ pm \in BOOLEAN
    /\ web = NoRequest
    /\ session = Anonymous
    /\ ec2 \in [client : BOOLEAN, configured : BOOLEAN, state : {"stopped", "running"}]

WebNext ==
    \/ LoginGet \/ LoginPost \/ LoginExists \/ LoginPassword \/ Logout
    \/ Index \/ IndexDescribe \/ IndexStart \/ IndexStatus
    \/ InstanceBoots \/ InstanceStops
    \/ \E p \in Procs \ Readers :
        \/ CreateEnter(p) \/ CreatePut(p)
        \/ DeleteEnter(p) \/ DeleteCall(p)
        \/ RotateEnter(p) \/ RotateGet(p) \/ RotateUpdate(p) \/ UpdateTags(p)

WebSpec == WebInit /\ [][WebNext]_vars

(***************************************************************************)
(* Password generation on its own: _generate_password with every length,   *)
(* and the two functions that call it, create_login without a password     *)
(* and rotate_password, called by one client.                              *)
(***************************************************************************)
\* the lengths _generate_password is called with
GenLengths == -2..24
\* the length argument of _generate_password: omitted, or one of the lengths
LengthArgs ==
    {[given |-> FALSE, length |-> DefaultLength]}
        \cup {[given |-> TRUE, length |-> n] : n \in GenLengths}
\* the lengths rotate_password is called with
RotateLengths == {0, 7, 24}

\* a call of _generate_password
Generate(p) ==
    /\ Ready(p)
    /\ \E arg \in LengthArgs, k \in 1..NumStreams :
         LET pw == GeneratePassword(arg.length, k)
         IN  proc' = [proc EXCEPT ![p] =
                         [Return(Entered("generate", "done", << >>, arg.given, pw, arg.length))
                            EXCEPT !.ret = pw]]
    /\ held' = Forget(p, "generate", << >>)
    /\ UNCHANGED <<store, hist>>
    /\ UNCHANGED webvars

\* rotate_password is entered with one of the lengths
RotateEnterLength(p) ==
    /\ Ready(p)
    /\ \E l \in LoginsOf(p), length \in RotateLengths :
         /\ proc' = [proc EXCEPT ![p] = login_check("rotate", "get", l, length)]
         /\ held' = Forget(p, "rotate", l)
    /\ UNCHANGED <<store, hist>>
    /\ UNCHANGED webvars

GenNext ==
    \E p \in Readers :
        \/ Generate(p)
        \/ CreateEnter(p) \/ CreatePut(p)
        \/ RotateEnterLength(p) \/ RotateGet(p) \/ RotateUpdate(p) \/ UpdateTags(p)

GenSpec == Init /\ [][GenNext]_vars

(***************************************************************************)
(* Overlapping writers: two clients that create, update and rotate, with   *)
(* each rotate_password and update_login marked when another one of the    *)
(* same login is in progress at the same time.                             *)
(***************************************************************************)
\* client q is in an update_login or rotate_password of login l
Writing(q, l) ==
    /\ proc[q].op \in {"update", "rotate"} /\ proc[q].pc \notin {"idle", "done"}
    /\ proc[q].login = l

\* client p enters with `call`; the calls that overlap are marked
Overlapped(p, call) ==
    [q \in Procs |->
        IF q = p
        THEN [call EXCEPT !.raced = call.pc # "done"
                                      /\ \E r \in Procs \ {p} : Writing(r, call.login)]
        ELSE IF call.pc # "done" /\ Writing(q, call.login)
        THEN [proc[q] EXCEPT !.raced = TRUE]
        ELSE proc[q]]

RotateEnterRacing(p) ==
    /\ Ready(p)
    /\ \E l \in LoginsOf(p), length \in LengthInputs :
         /\ proc' = Overlapped(p, login_check("rotate", "get", l, length))
         /\ held' = Forget(p, "rotate", l)
    /\ UNCHANGED <<store, hist>>
    /\ UNCHANGED webvars

UpdateEnterRacing(p) ==
    /\ Ready(p) /\ p \in Readers
    /\ \E l \in LoginsOf(p), pw \in PasswordsOf(p) :
         /\ proc' = Overlapped(p, update_login_check(Entered("update", "done", l, TRUE, pw, 0)))
         /\ held' = Forget(p, "update", l)
    /\ UNCHANGED <<store, hist>>
    /\ UNCHANGED webvars

RaceNext ==
    \E p \in Procs :
        \/ CreateEnter(p) \/ CreatePut(p)
        \/ UpdateEnterRacing(p) \/ UpdatePut(p) \/ UpdateTags(p)
        \/ RotateEnterRacing(p) \/ RotateGet(p) \/ RotateUpdate(p)

RaceSpec == Init /\ [][RaceNext]_vars

(***************************************************************************)
(* Properties                                                              *)
(***************************************************************************)
\* the step completes a call of function op by client p
Completes(p, op) == proc[p].op = op /\ proc[p].pc # "done" /\ proc'[p].pc = "done"

\* the call ended with the store's answer to its last request, and not with
\* a transport/authorization failure or a refused request
Answered(call) == call.status \notin {"AWSError", "ParamValidationError"}

\* the completed call of client p, if it is a call of op
Done(p, op) == proc[p].op = op /\ proc[p].pc = "done"

Stored(l) == HasParam(store, ParamName(l))
StoredValue(l) == ParamOf(store, ParamName(l)).value

\* C1 (part): no two parameters of the store share a name
UniqueNames == \A r1, r2 \in store : r1.name = r2.name => r1 = r2

\* C1 (part): a create_login of a stored name that the store answers fails with
\* LoginAlreadyExistsError, whatever the password argument, and changes nothing
CreateExistingFails ==
    \A p \in Procs :
        (Completes(p, "create") /\ Stored(proc[p].login) /\ Answered(proc'[p]))
            => /\ proc'[p].status = "LoginAlreadyExistsError"
               /\ store' = store

\* C1 (part): of two concurrent create_login calls of the same absent name
\* that the store answers, exactly one succeeds and the other fails with
\* LoginAlreadyExistsError
ConcurrentCreateOneWins ==
    \A p, q \in Procs :
        (/\ p # q
         /\ Done(p, "create") /\ Done(q, "create")
         /\ proc[p].login = proc[q].login /\ proc[p].login # << >>
         /\ proc[p].raced /\ proc[q].raced
         /\ Answered(proc[p]) /\ Answered(proc[q]))
            => \/ proc[p].status = "ok" /\ proc[q].status = "LoginAlreadyExistsError"
               \/ proc[q].status = "ok" /\ proc[p].status = "LoginAlreadyExistsError"

\* C1: login names are unique in the store; create_login of a stored name
\* always fails with LoginAlreadyExistsError and leaves the store as it was;
\* of two concurrent create_login calls of an absent name exactly one succeeds
C1_CreateUnique ==
    /\ [](UniqueNames /\ ConcurrentCreateOneWins)
    /\ [][CreateExistingFails]_vars

\* two concurrent create_login calls of the same absent name have both ended,
\* one of them with LoginAlreadyExistsError
C1_Witness ==
    /\ Done(1, "create") /\ Done(2, "create")
    /\ proc[1].login = proc[2].login
    /\ proc[1].raced /\ proc[2].raced
    /\ proc[1].status = "LoginAlreadyExistsError" /\ proc[2].status = "ok"
    /\ ~proc[1].given

\* a password _generate_password(length) can return
IsGenerated(pw, length) ==
    /\ Len(pw) = GenLength(length)
    /\ \A i \in 1..Len(pw) : pw[i] \in Alphabet

\* C2 (part): a create_login of an absent name that the store answers succeeds,
\* stores one parameter for the name and returns the value it holds: the given
\* password, or a generated one of the default length
CreateAbsentStores ==
    \A p \in Procs :
        (Completes(p, "create") /\ ~Stored(proc[p].login) /\ Answered(proc'[p]))
            => /\ proc'[p].status = "ok"
               /\ HasParam(store', ParamName(proc[p].login))
               /\ ParamOf(store', ParamName(proc[p].login)).value = proc'[p].ret
               /\ proc[p].given => proc'[p].ret = proc[p].pw
               /\ ~proc[p].given => IsGenerated(proc'[p].ret, DefaultLength)

\* C2 (part): a get_password that follows the create_login, with no write of
\* the login in between, returns what create_login returned
GetAfterCreate ==
    \A p \in Readers :
        /\ (Done(p, "create") /\ proc[p].status = "ok" /\ held[p].valid)
              => held[p].value = proc[p].ret
        /\ (Done(p, "get") /\ Answered(proc[p]) /\ held[p].valid /\ held[p].by = "create")
              => proc[p].status = "ok" /\ proc[p].ret = held[p].value

\* C2: create_login of an absent non-empty name succeeds and returns exactly
\* the password it stored (the supplied or the generated one), and a following
\* get_password, with no write of the name in between, returns that value
C2_CreateThenGet == []GetAfterCreate /\ [][CreateAbsentStores]_vars

\* a get_password has returned the generated password of the create_login before it
C2_Witness ==
    /\ Done(1, "get") /\ proc[1].status = "ok"
    /\ held[1].valid /\ held[1].by = "create"
    /\ IsGenerated(proc[1].ret, DefaultLength)

\* i < j => xs[i] < xs[j] in Python's order on str
IsSorted(xs) == \A i, j \in DOMAIN xs : i < j => StrLess(xs[i], xs[j])

\* the logins written (by create_login or by an overwrite) and not deleted since
LiveLogins == {l \in NonEmptyLogins : hist[l] \in {"created", "upserted"}}

\* the logins created by create_login and not deleted since
CreatedLogins == {l \in NonEmptyLogins : hist[l] = "created"}

\* C3 (as claimed): list_logins returns exactly the names created by
\* create_login and not deleted since
C3_Original ==
    [][\A p \in Procs :
        (Completes(p, "list") /\ proc'[p].status = "ok")
            => Range(proc'[p].names) = CreatedLogins]_vars

\* C3 (amended): list_logins returns, in lexicographic order and without
\* repetition, exactly the names written by create_login or by the overwrite
\* of update_login / rotate_password and not deleted since
C3_ListSortedLive ==
    [][\A p \in Procs :
        (Completes(p, "list") /\ proc'[p].status = "ok")
            => /\ IsSorted(proc'[p].names)
               /\ Range(proc'[p].names) = LiveLogins]_vars

\* list_logins has returned two names, one of them never created by create_login
C3_Witness ==
    /\ Done(1, "list") /\ proc[1].status = "ok"
    /\ proc[1].names = << <<1, 2>>, <<2>> >>
    /\ hist[<<1, 2>>] = "upserted" /\ hist[<<2>>] = "created"

\* C4 (part): what delete_login does when the store answers
DeleteEffect ==
    \A p \in Procs :
        (Completes(p, "delete") /\ Answered(proc'[p]))
            => IF Stored(proc[p].login)
               THEN /\ proc'[p].status = "ok"
                    /\ store' = store \ {ParamOf(store, ParamName(proc[p].login))}
               ELSE /\ proc'[p].status = "LoginNotFoundError"
                    /\ store' = store

\* C4 (part): while a deleted login has not been written again, list_logins
\* does not return it and get_password fails with LoginNotFoundError
DeletedStaysGone ==
    \A p \in Procs :
        /\ (Completes(p, "list") /\ proc'[p].status = "ok")
              => \A l \in NonEmptyLogins : hist[l] = "deleted" => l \notin Range(proc'[p].names)
        /\ (Completes(p, "get") /\ Answered(proc'[p]) /\ hist[proc[p].login] = "deleted")
              => proc'[p].status = "LoginNotFoundError"

\* C4: delete_login of an absent name fails with LoginNotFoundError and changes
\* nothing; delete_login of a stored name removes it: list_logins does not
\* return it and get_password fails with LoginNotFoundError until it is written again
C4_Delete == [][DeleteEffect /\ DeletedStaysGone]_vars

\* client 1 deleted login "ab", which only it writes, and its get_password
\* of "ab" has then failed with LoginNotFoundError
C4_Witness ==
    /\ Done(1, "get") /\ proc[1].login = <<1, 2>>
    /\ proc[1].status = "LoginNotFoundError"
    /\ hist[<<1, 2>>] = "deleted"

\* the step is one of client p
Steps(p) == proc'[p] # proc[p]

\* C5: login_exists raises only ValidationError, and only for the empty name:
\* for a non-empty name it ends normally whatever the store read does
C5_ExistsNeverFails ==
    \A p \in Procs :
        Done(p, "exists") =>
            IF proc[p].login = << >> THEN proc[p].status = "ValidationError"
            ELSE proc[p].status = "ok"

\* C6 (part): the value write of update_login, when the store accepts it,
\* leaves exactly one parameter of that name, with the given password, and
\* every other parameter as it was, whether the name was stored or not
UpdateOverwrites ==
    \A p \in Procs :
        (proc[p].op = "update" /\ proc[p].pc = "put" /\ Steps(p)
           /\ proc'[p].status # "AWSError")
            => /\ proc'[p].pc = "tags"
               /\ store' = {r \in store : r.name # ParamName(proc[p].login)}
                               \cup {Param(proc[p].login, proc[p].pw)}

\* C6 (part): a successful update_login sent the value write and the tag write
\* and no read; a get_password that follows it, with no write of the login in
\* between, returns the password
GetAfterUpdate ==
    \A p \in Readers :
        /\ (Done(p, "update") /\ proc[p].status = "ok") => proc[p].ncalls = 2
        /\ (Done(p, "update") /\ proc[p].status = "ok" /\ held[p].valid)
              => held[p].value = proc[p].pw
        /\ (Done(p, "get") /\ Answered(proc[p]) /\ held[p].valid /\ held[p].by = "update")
              => proc[p].status = "ok" /\ proc[p].ret = held[p].value

\* C6: update_login with non-empty arguments makes no existence check and
\* overwrites: a stored name gets the password, an absent name is created
\* with it, and a following get_password returns the password
C6_UpdateUpserts == []GetAfterUpdate /\ [][UpdateOverwrites]_vars

\* update_login created a login that was absent, and the get_password after
\* it has returned the password
C6_Witness ==
    /\ Done(1, "get") /\ proc[1].status = "ok"
    /\ held[1].valid /\ held[1].by = "update"
    /\ hist[proc[1].login] = "upserted"
    /\ proc[1].ret = CustomPassword

\* C7 (part): the first request of rotate_password is the read; when the store
\* answers that the login is absent the call ends with LoginNotFoundError, and
\* only the step after a successful read writes
RotateReadsFirst ==
    \A p \in Procs :
        /\ (proc[p].op = "rotate" /\ proc[p].pc = "get" /\ Steps(p) /\ Answered(proc'[p]))
              => /\ store' = store
                 /\ IF Stored(proc[p].login)
                    THEN proc'[p].pc = "generate"
                    ELSE proc'[p].status = "LoginNotFoundError"
        /\ (proc[p].op = "rotate" /\ Steps(p) /\ store' # store)
              => proc[p].pc = "generate"

\* C7 (part): a rotate_password that failed with LoginNotFoundError sent one
\* request and generated nothing; one that succeeded sent three and returns the
\* generated password it wrote
RotateOutcomes ==
    \A p \in Procs :
        /\ (Done(p, "rotate") /\ proc[p].status = "LoginNotFoundError")
              => proc[p].ncalls = 1 /\ proc[p].pw = << >> /\ proc[p].ret = << >>
        /\ (Done(p, "rotate") /\ proc[p].status = "ok")
              => /\ proc[p].ncalls = 3
                 /\ proc[p].ret = proc[p].pw
                 /\ IsGenerated(proc[p].ret, proc[p].length)

\* C7 (part): a get_password that follows the rotate_password, with no write of
\* the login by anyone else since its value write, returns what it returned
GetAfterRotate ==
    \A p \in Readers :
        /\ (Done(p, "rotate") /\ proc[p].status = "ok" /\ held[p].valid)
              => held[p].value = proc[p].ret
        /\ (Done(p, "get") /\ Answered(proc[p]) /\ held[p].valid /\ held[p].by = "rotate")
              => proc[p].status = "ok" /\ proc[p].ret = held[p].value

\* C7: rotate_password reads the login before it generates or writes: for an
\* absent name it fails with LoginNotFoundError and writes nothing; for a
\* stored name, with no other write in between, it returns the generated
\* password and a following get_password returns that value
C7_RotateReadsThenWrites == [](RotateOutcomes /\ GetAfterRotate) /\ [][RotateReadsFirst]_vars

\* a get_password has returned the password of the rotate_password before it
C7_Witness ==
    /\ Done(1, "get") /\ proc[1].status = "ok"
    /\ held[1].valid /\ held[1].by = "rotate"

\* C8: a successful rotate_password returns a password different from the one
\* that was stored immediately before its write
C8_RotateDiffers ==
    \A p \in Readers :
        (Done(p, "rotate") /\ proc[p].status = "ok") => proc[p].ret # proc[p].prior

\* the arguments of a call that C9 calls bad
BadInput(call) ==
    /\ call.op \notin {"none", "list"}
    /\ \/ call.login = << >>
       \/ call.op = "update" /\ call.pw = << >>
       \/ call.op = "create" /\ call.given /\ call.pw = << >>

\* C9 (as claimed): every call with bad input (an empty name, or an empty
\* password of update_login or create_login) fails with ValidationError before
\* any request is sent
C9_Original ==
    \A p \in Procs :
        (proc[p].pc = "done" /\ BadInput(proc[p]))
            => proc[p].status = "ValidationError" /\ proc[p].ncalls = 0

\* the arguments the library rejects
Rejected(call) ==
    /\ call.op \notin {"none", "list"}
    /\ \/ call.login = << >>
       \/ call.op = "update" /\ call.pw = << >>

\* C9 (part): a call fails with ValidationError exactly when its login is empty
\* or it is an update_login with an empty password; no request was sent then,
\* and a call with such arguments never gets to a request
ValidationLocal ==
    \A p \in Procs :
        /\ proc[p].pc = "done"
              => (Rejected(proc[p]) <=> proc[p].status = "ValidationError")
        /\ proc[p].status = "ValidationError" => proc[p].ncalls = 0
        /\ proc[p].pc \notin {"idle", "done"} => ~Rejected(proc[p])

\* C9 (part): the step that raises ValidationError leaves the store as it was
ValidationKeepsStore ==
    \A p \in Procs :
        (Steps(p) /\ proc'[p].status = "ValidationError") => store' = store

\* C9 (amended): an empty name (create, update, delete, get, rotate, exists,
\* info) or an empty password of update_login fails with ValidationError before
\* any request is sent and the store is unchanged; create_login validates its
\* name only
C9_ValidationLocal == []ValidationLocal /\ [][ValidationKeepsStore]_vars

\* update_login with an empty password has failed with ValidationError
C9_Witness ==
    /\ Done(1, "update") /\ proc[1].login # << >> /\ proc[1].pw = << >>
    /\ proc[1].status = "ValidationError" /\ proc[1].ncalls = 0

\* the messages that tell nothing of what the library reported
GenericMessages ==
    {"Invalid username or password", "System error occurred. Please try again."}

\* C10: when the library raised an error while a login POST was handled, the
\* response shows a generic message and nothing of the error's text
C10_ManagerErrorsGeneric ==
    (web.pc = "done" /\ web.route = "POST /login"
       /\ web.raised \in {"LoginNotFoundError", "ValidationError", "AWSError"})
        => \A i \in 1..Len(web.flashed) :
              /\ web.flashed[i].text \in GenericMessages
              /\ web.flashed[i].error = ""

\* the response to a login POST carries exactly the one message
\* 'Invalid username or password'
InvalidOnly ==
    web.flashed = <<Flash("error", "Invalid username or password", "", << >>)>>

\* C11: a login POST with non-empty username and password that does not
\* authenticate, every request of which the store answered, shows the single
\* message 'Invalid username or password', whatever the store held and whatever
\* was written or deleted while the request was handled
C11_InvalidIndistinguishable ==
    (/\ web.pc = "done" /\ web.route = "POST /login" /\ pm
     /\ web.username # << >> /\ web.password # << >>
     /\ web.page # "redirect index"
     /\ web.raised \notin {"AWSError", "Exception"})
        => InvalidOnly

\* C12 (part): the session changes only by a logout, which empties it, or by
\* the comparison step of a login POST whose username and password are not
\* empty, whose username is stored and whose password is the stored one at
\* that step; the session then holds that username
SessionSteps ==
    session' # session =>
        \/ /\ Browsing /\ web'.route = "GET /logout"
           /\ session' = Anonymous
        \/ /\ web.pc = "get" /\ web.route = "POST /login"
           /\ web.username # << >> /\ web.password # << >>
           /\ Stored(web.username)
           /\ StoredValue(web.username) = web.password
           /\ web'.page = "redirect index" /\ web'.raised = "none"
           /\ session' = [logged_in |-> TRUE, username |-> web.username]

\* C12 (part): a session is empty or authenticated with a username; after a
\* login POST that did not redirect to the dashboard the session is as it was
\* when the library was first called, after a logout it is empty, and GET /
\* with an empty session redirects to the login page without a call of EC2
SessionStates ==
    /\ IF session.logged_in THEN session.username # << >> ELSE session = Anonymous
    /\ (web.pc = "done" /\ web.route = "POST /login" /\ web.page = "redirect index")
          => session = [logged_in |-> TRUE, username |-> web.username]
    /\ (web.pc = "done" /\ web.route = "GET /logout") => session = Anonymous
    /\ (web.pc = "done" /\ web.route = "GET /" /\ ~session.logged_in)
          => web.page = "redirect login" /\ web.calls = << >>

\* C12: the session is Anonymous until a login POST with non-empty username
\* and password, the username stored and the password equal to the stored one
\* when read, makes it Authenticated for that username; nothing else sets
\* logged_in; logout empties the session, and GET / then redirects to the
\* login page
C12_SessionMachine == []SessionStates /\ [][SessionSteps]_vars

\* a login POST has authenticated the session
C12_Witness ==
    /\ web.pc = "done" /\ web.route = "POST /login" /\ web.page = "redirect index"
    /\ session = [logged_in |-> TRUE, username |-> <<2>>]
    /\ web.password = CustomPassword

\* the APIs of the EC2 client called for the request, in order
Apis(req) == [i \in 1..Len(req.calls) |-> req.calls[i].api]

\* C13 (part): a step that calls the EC2 client, or that starts the instance,
\* is a step of a GET / request of an authenticated session
Ec2CallsGated ==
    /\ (web'.calls # web.calls /\ web'.calls # << >>)
          => /\ web.route = "GET /" /\ web.pc \in {"describe", "start", "status"}
             /\ session.logged_in /\ session' = session
    /\ (ec2'.state = "pending" /\ ec2.state # "pending")
          => /\ web.route = "GET /" /\ web.pc = "start"
             /\ session.logged_in

\* C13 (part): a request for which the EC2 client was called is a GET / of an
\* authenticated session; no request of an anonymous session called it
Ec2CallsOfSession ==
    /\ web.calls # << >> => web.route = "GET /" /\ session.logged_in
    /\ ~session.logged_in => web.calls = << >>

\* C13: describe and start calls of the EC2 client are issued only while a
\* GET / request of an authenticated session is handled
C13_InstanceGated == []Ec2CallsOfSession /\ [][Ec2CallsGated]_vars

\* the dashboard of an authenticated session has started the instance
C13_Witness ==
    /\ web.pc = "done" /\ web.route = "GET /" /\ session.logged_in
    /\ Apis(web) = <<"describe_instances", "start_instances", "describe_instance_status">>
    /\ web.calls[2].outcome = "ok"

\* a dashboard view for which start_instances was called
StartCalled ==
    /\ web.pc = "done" /\ web.route = "GET /"
    /\ Len(web.calls) >= 2 /\ web.calls[2].api = "start_instances"

\* the status-check call of the request returned (with or without statuses)
StatusChecked ==
    /\ Len(web.calls) = 3 /\ web.calls[3].outcome \in {"ok", "empty"}

\* C14 (as claimed): an accepted start is reported as state 'pending' with
\* auto_started = true for every outcome of the status-check call, a rejected
\* one as state 'stopped' with auto_started = false
C14_Original ==
    StartCalled =>
        /\ web.calls[2].outcome = "ok"
              => web.snapshot.state = "pending" /\ web.snapshot.auto_started = "true"
        /\ web.calls[2].outcome \in Ec2Errors
              => web.snapshot.state = "stopped" /\ web.snapshot.auto_started = "false"

\* C14 (part): after describe_instances the start call follows exactly when
\* the call answered with the instance in state 'stopped', and the step after
\* that is the start call; nothing else calls start_instances
StartIffStopped ==
    /\ (web.pc = "describe" /\ web' # web)
          => (web'.pc = "start"
                <=> web'.calls[1].outcome = "ok" /\ ec2.state = "stopped")
    /\ (web.pc = "start" /\ web' # web)
          => Apis(web') = <<"describe_instances", "start_instances">>
    /\ (web'.calls # web.calls /\ web'.calls # << >>
           /\ web'.calls[Len(web'.calls)].api = "start_instances")
          => web.pc = "start"

\* C14 (part): what the dashboard is given after a start call: when the
\* status-check call returned, 'pending' with auto_started = true for an
\* accepted start and 'stopped' with auto_started = false for one rejected
\* with a ClientError; when the status-check call failed, or the start call
\* raised another exception, the error dict, which has neither
SnapshotAfterStart ==
    StartCalled =>
        IF StatusChecked
        THEN /\ web.snapshot.error = ""
             /\ web.calls[2].outcome = "ok"
                   => web.snapshot.state = "pending" /\ web.snapshot.auto_started = "true"
             /\ web.calls[2].outcome \in Ec2Errors
                   => web.snapshot.state = "stopped" /\ web.snapshot.auto_started = "false"
        ELSE /\ web.snapshot.error # "" /\ web.snapshot.state = "N/A"
             /\ web.snapshot.auto_started = "absent"

\* C14 (amended): start_instances is called if and only if describe_instances
\* observed the instance 'stopped'; when the following status-check call
\* returns, an accepted start is reported as 'pending' with auto_started = true
\* and a rejected one as 'stopped' with auto_started = false; when the
\* status-check call fails the dashboard gets the error dict instead
C14_StartOnStopped == []SnapshotAfterStart /\ [][StartIffStopped]_vars

\* an accepted start has been reported as pending
C14_Witness ==
    /\ StartCalled /\ StatusChecked /\ web.calls[2].outcome = "ok"
    /\ web.snapshot.state = "pending" /\ web.snapshot.auto_started = "true"

\* the call of the EC2 client failed, or found nothing to describe
Ec2Failed(c) ==
    \/ c.outcome \notin {"ok", "empty"}
    \/ c.api = "describe_instances" /\ c.outcome = "empty"

\* C15 (part): get_instance_status called without a client or without an
\* instance id returns the dict with the 'error' text
NoClientNoCall ==
    \A client, id \in BOOLEAN :
        ~(client /\ id) =>
            LET r == get_instance_status_enter([NoRequest EXCEPT !.route = "GET /"], client, id)
            IN  r.pc = "done" /\ r.calls = << >> /\ r.snapshot.error # ""

\* C15 (part): a dashboard view never ends with an exception: it renders the
\* dashboard, and after a failed call of the EC2 client the snapshot carries
\* an 'error' text or, for a start rejected with a ClientError, the state
\* 'stopped'
DashboardRenders ==
    (web.pc = "done" /\ web.route = "GET /" /\ session.logged_in) =>
        /\ web.page = "dashboard" /\ web.raised = "none"
        /\ (ec2.configured /\ ~ec2.client) => web.snapshot.error # ""
        /\ \A i \in 1..Len(web.calls) :
              Ec2Failed(web.calls[i]) =>
                  \/ web.snapshot.error # "" /\ web.snapshot.state = "N/A"
                  \/ /\ web.calls[i].api = "start_instances"
                     /\ web.calls[i].outcome \in Ec2Errors
                     /\ web.snapshot.state = "stopped"

\* C15: get_instance_status never raises: a failed describe, start or
\* status-check call, a missing client, a missing instance id or an empty
\* reservation list gives a snapshot with an 'error' text (or, for a rejected
\* start, the state 'stopped'), and the dashboard renders
C15_StatusNeverRaises == NoClientNoCall /\ DashboardRenders

\* the dashboard has rendered after an exception of the EC2 client that is
\* not a ClientError
C15_Witness ==
    /\ web.pc = "done" /\ web.route = "GET /" /\ web.page = "dashboard"
    /\ \E i \in 1..Len(web.calls) : web.calls[i].outcome = "Exception"
    /\ web.snapshot.error = "Unexpected error"

\* every character of the password is one of the 72 of the alphabet
InAlphabet(pw) == \A i \in 1..Len(pw) : pw[i] \in 1..72

TagFailureKeepsValue ==
    \A p \in Procs :
        (proc[p].pc = "tags" /\ Steps(p)) =>
            /\ store' = store
            /\ proc'[p].pc = "done" /\ proc'[p].status \in {"ok", "AWSError"}
            /\ ~Stored(proc[p].login) => proc'[p].status = "AWSError"
            /\ proc'[p].status = "AWSError" =>
                  /\ proc'[p].ret = << >> /\ proc'[p].pw = proc[p].pw
                  /\ held[p].valid =>
                        /\ Stored(proc[p].login)
                        /\ StoredValue(proc[p].login) = proc[p].pw

\* C17 (part): between its value write and its tag write, a call has its
\* password stored unless somebody has written the login since; a
\* rotate_password that failed at the tag write generated a password and
\* returned none
WrittenBeforeTags ==
    /\ \A p \in Readers :
          (proc[p].pc = "tags" /\ held[p].valid)
              => Stored(proc[p].login) /\ StoredValue(proc[p].login) = proc[p].pw
    /\ \A p \in Procs :
          (Done(p, "rotate") /\ proc[p].status = "AWSError" /\ proc[p].ncalls = 3)
              => IsGenerated(proc[p].pw, proc[p].length) /\ proc[p].ret = << >>

\* C17: when the value write of update_login succeeds and the tag write fails,
\* the call reports AWSError and the stored password stays the new value; a
\* rotate_password that fails this way leaves stored a generated password it
\* did not return
C17_TagsNotTransactional == []WrittenBeforeTags /\ [][TagFailureKeepsValue]_vars

\* a rotate_password has failed at the tag write and its password is stored
C17_Witness ==
    /\ Done(1, "rotate") /\ proc[1].status = "AWSError" /\ proc[1].ncalls = 3
    /\ proc[1].ret = << >>
    /\ Stored(proc[1].login) /\ StoredValue(proc[1].login) = proc[1].pw

\* clients p and q have both completed, successfully, overlapping calls of
\* rotate_password or update_login of one login
BothWrote(p, q) ==
    /\ p # q
    /\ proc[p].op \in {"rotate", "update"} /\ proc[q].op \in {"rotate", "update"}
    /\ proc[p].pc = "done" /\ proc[q].pc = "done"
    /\ proc[p].status = "ok" /\ proc[q].status = "ok"
    /\ proc[p].raced /\ proc[q].raced
    /\ proc[p].login = proc[q].login

\* C18: once overlapping rotate_password / update_login calls of a stored
\* name have all succeeded, the stored password is the one written by one of
\* them, the last, and every other rotate_password caller holds a returned
\* password that is not the stored one
C18_LastWriteWins ==
    \A p, q \in Procs :
        BothWrote(p, q) =>
            /\ Stored(proc[p].login)
            /\ StoredValue(proc[p].login) \in {proc[p].pw, proc[q].pw}
            /\ (proc[p].op = "rotate" /\ proc[q].op = "rotate")
                  => ~(/\ proc[p].ret = StoredValue(proc[p].login)
                       /\ proc[q].ret = StoredValue(proc[p].login))

\* client p is in a rotate_password
Rotating(p) == proc[p].op = "rotate" /\ proc[p].pc \notin {"idle", "done"}

\* the step is a step of a rotate_password
RotateStep == \E p \in Procs : Rotating(p) /\ Steps(p)

\* C19 (as claimed): a login that has been deleted and is absent stays absent
\* over every step of a rotate_password
C19_Original ==
    [][\A l \in NonEmptyLogins :
          (hist[l] = "deleted" /\ ~Stored(l) /\ RotateStep) => ~Stored(l)']_vars

\* C19 (part): what a step of rotate_password does to an absent login
RotateRecreatesOnlyDeleted ==
    \A p \in Procs :
        /\ (Rotating(p) /\ Steps(p)
              /\ ~Stored(proc[p].login) /\ Stored(proc[p].login)')
              => /\ proc[p].pc = "generate" /\ proc[p].ncalls = 1
                 /\ hist[proc[p].login] = "deleted"
                 /\ StoredValue(proc[p].login)' = proc'[p].pw
        /\ (proc[p].op = "rotate" /\ proc[p].pc = "get" /\ Steps(p)
              /\ ~Stored(proc[p].login) /\ Answered(proc'[p]))
              => /\ proc'[p].status = "LoginNotFoundError"
                 /\ ~Stored(proc[p].login)'

\* C19 (what the code does guarantee): rotate_password brings a login into existence only as the
\* overwrite of a call whose read found the login, which was deleted between
\* that read and the write; a call whose read is answered after the delete
\* fails with LoginNotFoundError and writes nothing
C19_RotateRecreatesOnlyDeleted == [][RotateRecreatesOnlyDeleted]_vars

\* a rotate_password has written a login that was deleted after its read
C19_Witness ==
    /\ Done(1, "rotate") /\ proc[1].status = "ok" /\ proc[1].prior = << >>
    /\ Stored(proc[1].login) /\ StoredValue(proc[1].login) = proc[1].ret

\* C20 (part): the session stops being authenticated only by a logout, and no
\* step that changes the store (a delete, a rotate or a create by another
\* client) changes the session
SessionOutlivesStore ==
    /\ (session.logged_in /\ ~session'.logged_in)
          => Browsing /\ web'.route = "GET /logout" /\ web'.pc = "done"
    /\ store' # store => session' = session

\* C20 (part): a finished GET / of an authenticated session has rendered the
\* dashboard, whatever the store holds for the session's login
DashboardOfSession ==
    (web.pc = "done" /\ web.route = "GET /" /\ session.logged_in)
        => web.page = "dashboard"

\* C20: an authenticated session is never checked against the store again:
\* deleting its login or changing its password leaves it authenticated, GET /
\* still renders the dashboard, and only logout makes the session anonymous
C20_SessionNotRevalidated == []DashboardOfSession /\ [][SessionOutlivesStore]_vars

\* the dashboard rendered, and the instance started, for a session whose login
\* has been deleted since it logged in
C20_Witness ==
    /\ web.pc = "done" /\ web.route = "GET /" /\ web.page = "dashboard"
    /\ session.logged_in /\ ~Stored(session.username)
    /\ Len(web.calls) >= 2 /\ web.calls[2].api = "start_instances"
    /\ web.calls[2].outcome = "ok"

\* the functions of the manager that only read the store
ReadOps == {"get", "exists", "list", "info"}

\* the errors of the manager that report a refused call
RefusalErrors == {"ValidationError", "LoginNotFoundError", "LoginAlreadyExistsError"}

\* the parameters of store s other than the one named n
Others(s, n) == {r \in s : r.name # n}

\* C21 (part): a step of a call on login A leaves every parameter of another
\* name as it was (present or absent, with its value), a step of a reading
\* function leaves the store as it was, and so does a step that sends no
\* request and a step that ends a call with ValidationError,
\* LoginNotFoundError or LoginAlreadyExistsError
FrameOfStep ==
    \A p \in Procs :
        Steps(p) =>
            /\ Others(store', ParamName(proc'[p].login))
                   = Others(store, ParamName(proc'[p].login))
            /\ proc'[p].op \in ReadOps => store' = store
            /\ proc'[p].ncalls <= proc[p].ncalls => store' = store
            /\ proc'[p].status \in RefusalErrors => store' = store

\* C21 (part): a call that ended with ValidationError, LoginNotFoundError or
\* LoginAlreadyExistsError sent at most one request, the one refused
RefusedAtFirstRequest ==
    \A p \in Procs :
        (proc[p].pc = "done" /\ proc[p].status \in RefusalErrors)
            => proc[p].ncalls <= 1

\* C21: create, update, rotate and delete on a name leave the record of every
\* other name unchanged; get_password, login_exists, list_logins and
\* get_login_info never change the store; a call that fails with
\* ValidationError, LoginNotFoundError or LoginAlreadyExistsError has changed
\* nothing in the store
C21_Frame == []RefusedAtFirstRequest /\ [][FrameOfStep]_vars

\* login "ab" deleted by client 1 while login "b" is stored
C21_Witness ==
    /\ Done(1, "delete") /\ proc[1].status = "ok" /\ proc[1].login = <<1, 2>>
    /\ ~Stored(<<1, 2>>) /\ Stored(<<2>>) /\ ForeignParam \in store

====
